---- MODULE Spec2Model ----
(***************************************************************************)
(* Model of component/component.go (OpenIMSDK/tools): the five startup     *)
(* readiness checkers CheckMongo, CheckMinio, CheckRedis, CheckZookeeper   *)
(* and CheckKafka, together with getEnv, buildMongoURI, exactIP and        *)
(* IsTopicPresent.                                                         *)
(*                                                                         *)
(* A Go string is a finite sequence of tokens (a token is a run of         *)
(* characters that no operation of the program cuts in two): "" is <<>>,   *)
(* concatenation is \o, and the separators "," ":" "//" are tokens of      *)
(* their own, so that strings.Split, strings.Join, url.Parse and           *)
(* net.SplitHostPort are computed, not assumed.                            *)
(***************************************************************************)
EXTENDS Integers, Sequences, FiniteSets, TLC

VARIABLES
    env,        \* the process environment: key -> [exists, value]
    mongoStu,   \* config.Mongo handed to CheckMongo
    minioStu,   \* config.Object handed to CheckMinio
    redisStu,   \* config.Redis handed to CheckRedis
    zkStu,      \* config.Zookeeper handed to CheckZookeeper
    kafkaStu,   \* config.Kafka handed to CheckKafka
    pc,         \* checker -> position of its invocation
    ret,        \* checker -> the (descriptor, error) pair it returned
    ops,        \* checker -> the calls it has issued to its backend/client, in order
    envReads,   \* checker -> the environment keys it has looked up
    loc,        \* checker -> its local variables
    eventChan,  \* CheckZookeeper: the events pending on the channel zk.Connect returned
    timerFired, \* CheckZookeeper: time.After(5s) has delivered its value
    produced,   \* CheckZookeeper: how many events the zk library has sent so far
    signals     \* CheckZookeeper: the order in which the timer's value ("timer") and the
                \* first Connected event ("event") became available to the select

vars == <<env, mongoStu, minioStu, redisStu, zkStu, kafkaStu, pc, ret, ops,
          envReads, loc, eventChan, timerFired, produced, signals>>

(***************************************************************************)
(* Bounds of the model.                                                    *)
(***************************************************************************)
MaxAddrs  == 2   \* longest configured address list
MaxLen    == 3   \* longest address string (in tokens) an environment variable holds
MaxTopics == 2   \* longest live topic list a broker reports
MaxEvents == 2   \* most events the zk library sends during one wait
MaxPar    == 2   \* most checkers invoked together

Checkers == {"mongo", "minio", "redis", "zk", "kafka"}

(***************************************************************************)
(* Strings.                                                                *)
(***************************************************************************)
Empty == <<>>

RECURSIVE Join(_, _)
\* strings.Join(elems, sep)
Join(elems, sep) ==
    IF Len(elems) = 0 THEN Empty
    ELSE IF Len(elems) = 1 THEN elems[1]
    ELSE elems[1] \o sep \o Join(Tail(elems), sep)

RECURSIVE Index(_, _, _)
\* position of the first token tok of s at or after position i, 0 when there is none
Index(s, tok, i) ==
    IF i > Len(s) THEN 0
    ELSE IF s[i] = tok THEN i
    ELSE Index(s, tok, i + 1)

RECURSIVE LastIndex(_, _, _)
\* position of the last token tok of s at or before position i, 0 when there is none
LastIndex(s, tok, i) ==
    IF i < 1 THEN 0
    ELSE IF s[i] = tok THEN i
    ELSE LastIndex(s, tok, i - 1)

RECURSIVE Split(_, _)
\* strings.Split(s, sep) for a one-token separator: always count(sep)+1 elements,
\* so Split("", ",") is [""] and Split("a,", ",") is ["a", ""]
Split(s, sep) ==
    LET i == Index(s, sep, 1) IN
    IF i = 0 THEN <<s>>
    ELSE <<SubSeq(s, 1, i - 1)>> \o Split(SubSeq(s, i + 1, Len(s)), sep)

\* strings.HasSuffix(s, suffix) for a one-token suffix
HasSuffix(s, tok) == Len(s) > 0 /\ s[Len(s)] = tok

\* strings.HasPrefix(s, prefix) for a one-token prefix
HasPrefix(s, tok) == Len(s) > 0 /\ s[1] = tok

(***************************************************************************)
(* The environment and getEnv.                                             *)
(***************************************************************************)
EnvKeys == {"MONGO_URI",
            "MINIO_ENDPOINT", "MINIO_ACCESS_KEY_ID", "MINIO_SECRET_ACCESS_KEY", "MINIO_USE_SSL",
            "REDIS_ADDRESS", "REDIS_USERNAME", "REDIS_PASSWORD",
            "ZOOKEEPER_SCHEMA", "ZOOKEEPER_ADDRESS", "ZOOKEEPER_USERNAME", "ZOOKEEPER_PASSWORD",
            "KAFKA_USERNAME", "KAFKA_PASSWORD", "KAFKA_ADDRESS"}

\* os.LookupEnv(key): the value and whether the variable is present
LookupEnv(key) == env[key]

\* a getEnv that treats a variable set to "" as if it were not set
getEnv_EmptyIsUnset(key, fallback) ==
    IF LookupEnv(key).exists /\ LookupEnv(key).value # Empty
    THEN LookupEnv(key).value
    ELSE fallback

getEnv(key, fallback) ==
    IF LookupEnv(key).exists THEN LookupEnv(key).value ELSE fallback

(***************************************************************************)
(* Errors.  An error value is its code (0 for an error without one), the   *)
(* message of its cause and the context string it was wrapped with.        *)
(***************************************************************************)
componentStartErrCode == 6000
configErrCode         == 6001

NilErr == [kind |-> "nil", code |-> 0, msg |-> Empty, ctx |-> Empty]

\* errors.New(msg), and the errors the client libraries return
NewError(msg) == [kind |-> "error", code |-> 0, msg |-> msg, ctx |-> Empty]

\* errs.NewCodeError(code, msg)
NewCodeError(code, msg) == [kind |-> "code", code |-> code, msg |-> msg, ctx |-> Empty]

ErrComponentStart == NewCodeError(componentStartErrCode, <<"ComponentStartErr">>)
ErrConfig         == NewCodeError(configErrCode, <<"Config file is incorrect">>)

\* errs.Wrap(err, msg) and CodeError.Wrap(msg): the same error, carrying msg as context
Wrap(err, msg) == [err EXCEPT !.ctx = msg]

\* fmt.Errorf("%v;%s", err, str): a new error without code whose text is "<err>;<str>"
ErrStr(err, str) == NewError(err.msg \o <<";">> \o str)

(***************************************************************************)
(* net/url and net, as far as exactIP and CheckMinio use them.             *)
(***************************************************************************)
LetterTokens == {"http", "https", "HTTPS", "h"}     \* tokens made of letters only
DigitTokens  == {"9000"}                            \* tokens made of digits only
DottedTokens == {"127.0.0.1"}                       \* digits and dots, starting with a digit
SlashTokens  == {"//", "/"}                         \* tokens that start with '/'

\* strings.ToLower on one token
ToLowerTok(t) == IF t = "HTTPS" THEN "https" ELSE t

ToLower(s) == [i \in 1..Len(s) |-> ToLowerTok(s[i])]

RECURSIVE getScheme(_, _)
\* url.getScheme(rawURL), scanning from token i: letters go on; digits, '+', '-', '.'
\* go on except at the very start; ':' ends the scheme (an error at the very start);
\* anything else means there is no scheme
getScheme(s, i) ==
    IF i > Len(s) THEN [ok |-> TRUE, scheme |-> Empty, rest |-> s]
    ELSE IF s[i] \in LetterTokens THEN getScheme(s, i + 1)
    ELSE IF s[i] \in DigitTokens \cup DottedTokens
         THEN IF i = 1 THEN [ok |-> TRUE, scheme |-> Empty, rest |-> s]
              ELSE getScheme(s, i + 1)
    ELSE IF s[i] = ":"
         THEN IF i = 1 THEN [ok |-> FALSE, scheme |-> Empty, rest |-> Empty]
              ELSE [ok |-> TRUE, scheme |-> SubSeq(s, 1, i - 1), rest |-> SubSeq(s, i + 1, Len(s))]
    ELSE [ok |-> TRUE, scheme |-> Empty, rest |-> s]

\* position of the first token of s that starts with '/', 0 when there is none
RECURSIVE IndexSlash(_, _)
IndexSlash(s, i) ==
    IF i > Len(s) THEN 0
    ELSE IF s[i] \in SlashTokens THEN i
    ELSE IndexSlash(s, i + 1)

\* url.validOptionalPort(port), port being the text from the last ':' on:
\* ":" followed by digits only (possibly none)
validOptionalPort(port) ==
    \/ port = Empty
    \/ /\ port[1] = ":"
       /\ \A i \in 2..Len(port) : port[i] \in DigitTokens

\* url.parseHost(host) for hosts without brackets and escapes
parseHostOk(host) ==
    LET i == LastIndex(host, ":", Len(host)) IN
    i = 0 \/ validOptionalPort(SubSeq(host, i, Len(host)))

NilURL == [ok |-> FALSE, Scheme |-> Empty, Host |-> Empty]

\* url.Parse(rawURL): ok is FALSE when Parse returns (nil, err)
Parse(rawURL) ==
    LET g == getScheme(rawURL, 1) IN
    IF ~g.ok THEN NilURL
    ELSE
      LET scheme == ToLower(g.scheme)
          rest   == g.rest
          slash  == Len(rest) > 0 /\ rest[1] \in SlashTokens
          cut    == IndexSlash(rest, 1)
          seg    == IF cut = 0 THEN rest ELSE SubSeq(rest, 1, cut - 1)
      IN
      IF ~slash /\ scheme # Empty
        THEN [ok |-> TRUE, Scheme |-> scheme, Host |-> Empty]          \* opaque
      ELSE IF ~slash /\ Index(seg, ":", 1) # 0
        THEN NilURL               \* first path segment in URL cannot contain colon
      ELSE IF HasPrefix(rest, "//")
        THEN LET after     == Tail(rest)
                 j         == IndexSlash(after, 1)
                 authority == IF j = 0 THEN after ELSE SubSeq(after, 1, j - 1)
             IN IF parseHostOk(authority)
                  THEN [ok |-> TRUE, Scheme |-> scheme, Host |-> authority]
                  ELSE NilURL                                          \* invalid port
      ELSE [ok |-> TRUE, Scheme |-> scheme, Host |-> Empty]

\* net.SplitHostPort(hostport) for hosts without brackets
SplitHostPort(hostport) ==
    LET i == LastIndex(hostport, ":", Len(hostport)) IN
    IF i = 0 THEN [ok |-> FALSE, host |-> Empty]                       \* missing port
    ELSE IF Index(SubSeq(hostport, 1, i - 1), ":", 1) # 0
      THEN [ok |-> FALSE, host |-> Empty]                              \* too many colons
    ELSE [ok |-> TRUE, host |-> SubSeq(hostport, 1, i - 1)]

Loopback == <<"127.0.0.1">>

\* exactIP(urll) panics when url.Parse returns a nil *URL: u.Host dereferences it
exactIPPanics(urll) == ~Parse(urll).ok

\* an exactIP that compares the whole u.Host, port included
exactIP_KeepPort(urll) == Parse(urll).Host

\* exactIP(urll), where it does not panic
exactIP(urll) ==
    LET u     == Parse(urll)
        sp    == SplitHostPort(u.Host)
        host  == IF sp.ok THEN sp.host ELSE u.Host
    IN IF HasSuffix(host, ":") THEN SubSeq(host, 1, Len(host) - 1) ELSE host

(***************************************************************************)
(* buildMongoURI and IsTopicPresent.                                       *)
(***************************************************************************)
\* fmt's %d of the pool sizes the model uses
Itoa(n) == <<ToString(n)>>

\* a buildMongoURI that writes credentials as soon as there is a username
buildMongoURI_Partial(stu) ==
    LET mongodbHosts == Join(stu.Address, <<",">>) IN
    IF stu.Username # Empty
    THEN <<"mongodb://">> \o stu.Username \o <<":">> \o stu.Password \o <<"@">>
         \o mongodbHosts \o <<"/">> \o stu.Database
         \o <<"?maxPoolSize=">> \o Itoa(stu.MaxPoolSize)
    ELSE <<"mongodb://">> \o mongodbHosts \o <<"/">> \o stu.Database
         \o <<"?maxPoolSize=">> \o Itoa(stu.MaxPoolSize)

\* lines 94-109: the connection URI of the configuration
buildMongoURI(stu) ==
    LET mongodbHosts == Join(stu.Address, <<",">>) IN
    IF stu.Username # Empty /\ stu.Password # Empty
    THEN <<"mongodb://">> \o stu.Username \o <<":">> \o stu.Password \o <<"@">>
         \o mongodbHosts \o <<"/">> \o stu.Database
         \o <<"?maxPoolSize=">> \o Itoa(stu.MaxPoolSize)
    ELSE <<"mongodb://">> \o mongodbHosts \o <<"/">> \o stu.Database
         \o <<"?maxPoolSize=">> \o Itoa(stu.MaxPoolSize)

\* an IsTopicPresent that accepts a live topic the required one is a prefix of
IsTopicPresent_Prefix(topic, topics) ==
    \E i \in 1..Len(topics) :
        /\ Len(topics[i]) >= Len(topic)
        /\ SubSeq(topics[i], 1, Len(topic)) = topic

IsTopicPresent(topic, topics) ==
    \E i \in 1..Len(topics) : topics[i] = topic

RECURSIVE FirstMissing(_, _, _)
\* the loop of CheckKafka over requiredTopics from position i on: the position of the
\* first required topic that is not present, 0 when every one is
FirstMissing(requiredTopics, topics, i) ==
    IF i > Len(requiredTopics) THEN 0
    ELSE IF ~IsTopicPresent(requiredTopics[i], topics) THEN i
    ELSE FirstMissing(requiredTopics, topics, i + 1)

(***************************************************************************)
(* Inputs: the configurations and environments one invocation may see.     *)
(***************************************************************************)
SeqsUpTo(S, n) == UNION {[1..k -> S] : k \in 0..n}

Unset  == [exists |-> FALSE, value |-> Empty]
Set(v) == [exists |-> TRUE, value |-> v]

NoEnv == [k \in EnvKeys |-> Unset]

Hosts          == {<<"a">>, <<"b">>}
AddrLists      == SeqsUpTo(Hosts, MaxAddrs)            \* a configured address list
EnvAddrStrings == SeqsUpTo({"a", ","}, MaxLen)         \* an address string of the environment
EnvAddrs       == {Unset} \cup {Set(v) : v \in EnvAddrStrings}
Users          == {Empty, <<"u">>}
Passwords      == {Empty, <<"p">>}
TopicNames     == {<<"t">>, <<"t", "x">>, <<"w">>}
TopicLists     == SeqsUpTo(TopicNames, MaxTopics)      \* the live topic list of a broker
EventStates    == {"StateConnecting", "StateConnected", "StateDisconnected"}

MongoConfigs ==
    [Address : AddrLists, Username : Users, Password : Passwords,
     Database : {<<"openim">>}, MaxPoolSize : {100}]

Endpoints ==
    {Empty,
     <<"http", ":", "//", "h", ":", "9000">>,
     <<"https", ":", "//", "h", ":", "9000">>,
     <<"127.0.0.1", ":", "9000">>}
ApiURLs ==
    {Empty,
     <<"http", ":", "//", "127.0.0.1", ":", "9000">>,
     <<"http", ":", "//", "h", ":", "9000">>,
     <<"127.0.0.1", ":", "9000">>}
SignEndpoints ==
    {<<"http", ":", "//", "127.0.0.1">>,
     <<"http", ":", "//", "h", ":", "9000">>,
     <<"127.0.0.1", ":", "9000">>,
     <<"http", ":", "//", "127.0.0.1", ":", ":">>}

MinioConfigs ==
    [Enable : {<<"minio">>, <<"cos">>},
     ApiURL : ApiURLs,
     Minio  : [Endpoint : Endpoints, AccessKeyID : {Empty, <<"ak">>},
               SecretAccessKey : {Empty, <<"sk">>}, SignEndpoint : SignEndpoints]]

RedisConfigs == [Address : AddrLists, Username : Users, Password : Passwords]

ZkConfigs == [ZkAddr : AddrLists, Username : Users, Password : Passwords]

KafkaConfigs ==
    [Addr : AddrLists, Username : Users, Password : Passwords,
     MsgToMongo : [Topic : TopicNames], MsgToPush : [Topic : TopicNames],
     LatestMsgToRedis : [Topic : TopicNames]]

DefaultMongo == [Address |-> <<>>, Username |-> Empty, Password |-> Empty,
                 Database |-> <<"openim">>, MaxPoolSize |-> 100]
DefaultMinio == [Enable |-> <<"cos">>, ApiURL |-> Empty,
                 Minio |-> [Endpoint |-> Empty, AccessKeyID |-> Empty,
                            SecretAccessKey |-> Empty,
                            SignEndpoint |-> <<"http", ":", "//", "h", ":", "9000">>]]
DefaultRedis == [Address |-> <<>>, Username |-> Empty, Password |-> Empty]
DefaultZk    == [ZkAddr |-> <<>>, Username |-> Empty, Password |-> Empty]
DefaultKafka == [Addr |-> <<>>, Username |-> Empty, Password |-> Empty,
                 MsgToMongo |-> [Topic |-> <<"t">>], MsgToPush |-> [Topic |-> <<"t">>],
                 LatestMsgToRedis |-> [Topic |-> <<"t">>]]

\* only checker c is invoked
Only(c) == [x \in Checkers |-> IF x = c THEN "start" ELSE "idle"]

NoRet == [desc |-> Empty, err |-> NilErr]

InitCommon ==
    /\ ret = [c \in Checkers |-> NoRet]
    /\ ops = [c \in Checkers |-> <<>>]
    /\ envReads = [c \in Checkers |-> {}]
    /\ loc = [c \in Checkers |-> <<>>]
    /\ eventChan = <<>>
    /\ timerFired = FALSE
    /\ produced = 0
    /\ signals = <<>>

InitMongo ==
    /\ pc = Only("mongo")
    /\ mongoStu \in MongoConfigs
    /\ \E u \in {Unset, Set(Empty), Set(<<"mongodb://", "a">>)} :
           env = [NoEnv EXCEPT !["MONGO_URI"] = u]
    /\ minioStu = DefaultMinio /\ redisStu = DefaultRedis
    /\ zkStu = DefaultZk /\ kafkaStu = DefaultKafka

InitMinio ==
    /\ pc = Only("minio")
    /\ minioStu \in MinioConfigs
    /\ \E e \in {Unset, Set(Empty), Set(<<"HTTPS", ":", "//", "h", ":", "9000">>)},
          a \in {Unset, Set(Empty)}, k \in {Unset, Set(Empty)},
          ssl \in {Unset, Set(<<"true">>), Set(<<"false">>)} :
           env = [NoEnv EXCEPT !["MINIO_ENDPOINT"] = e, !["MINIO_ACCESS_KEY_ID"] = a,
                               !["MINIO_SECRET_ACCESS_KEY"] = k, !["MINIO_USE_SSL"] = ssl]
    /\ mongoStu = DefaultMongo /\ redisStu = DefaultRedis
    /\ zkStu = DefaultZk /\ kafkaStu = DefaultKafka

InitRedis ==
    /\ pc = Only("redis")
    /\ redisStu \in RedisConfigs
    /\ \E a \in EnvAddrs, u \in {Unset, Set(<<"eu">>)} :
           env = [NoEnv EXCEPT !["REDIS_ADDRESS"] = a, !["REDIS_USERNAME"] = u]
    /\ mongoStu = DefaultMongo /\ minioStu = DefaultMinio
    /\ zkStu = DefaultZk /\ kafkaStu = DefaultKafka

InitZk ==
    /\ pc = Only("zk")
    /\ zkStu \in ZkConfigs
    /\ \E a \in {Unset, Set(Empty), Set(<<"a">>), Set(<<"a", ",", "a">>)},
          u \in {Unset, Set(Empty)}, sch \in {Unset, Set(<<"world">>)} :
           env = [NoEnv EXCEPT !["ZOOKEEPER_ADDRESS"] = a, !["ZOOKEEPER_USERNAME"] = u,
                               !["ZOOKEEPER_SCHEMA"] = sch]
    /\ mongoStu = DefaultMongo /\ minioStu = DefaultMinio
    /\ redisStu = DefaultRedis /\ kafkaStu = DefaultKafka

InitKafka ==
    /\ pc = Only("kafka")
    /\ kafkaStu \in KafkaConfigs
    /\ \E a \in {Unset, Set(Empty), Set(<<"a", ",", "a">>)}, p \in {Unset, Set(Empty)} :
           env = [NoEnv EXCEPT !["KAFKA_ADDRESS"] = a, !["KAFKA_PASSWORD"] = p]
    /\ mongoStu = DefaultMongo /\ minioStu = DefaultMinio
    /\ redisStu = DefaultRedis /\ zkStu = DefaultZk

Init ==
    /\ InitCommon
    /\ (InitMongo \/ InitMinio \/ InitRedis \/ InitZk \/ InitKafka)

(***************************************************************************)
(* What every step of a checker records.                                   *)
(***************************************************************************)
Call(op, ok) == [op |-> op, ok |-> ok]

\* a return through one result slot that all checkers share
Return_Shared(c, desc, err) ==
    /\ pc' = [pc EXCEPT ![c] = "done"]
    /\ ret' = [x \in Checkers |-> [desc |-> desc, err |-> err]]

\* checker c returns (desc, err)
Return(c, desc, err) ==
    /\ pc' = [pc EXCEPT ![c] = "done"]
    /\ ret' = [ret EXCEPT ![c] = [desc |-> desc, err |-> err]]

Goto(c, label) == pc' = [pc EXCEPT ![c] = label] /\ UNCHANGED ret

configs == <<mongoStu, minioStu, redisStu, zkStu, kafkaStu>>
zkWait  == <<eventChan, timerFired, produced, signals>>

\* signal sig has become available: its first time is remembered
Signalled(sig) ==
    signals' = IF \E i \in 1..Len(signals) : signals[i] = sig
                 THEN signals ELSE Append(signals, sig)

(***************************************************************************)
(* CheckMongo.                                                             *)
(***************************************************************************)
\* defer client.Disconnect(context.Background())
MongoDeferred(log) == Append(log, Call("Disconnect", TRUE))

\* lines 70-81: resolve the URI, mongo.Connect
MongoConnect ==
    /\ pc["mongo"] = "start"
    /\ LET uri == getEnv("MONGO_URI", buildMongoURI(mongoStu))
           str == <<"ths addr is:">> \o Join(mongoStu.Address, <<",">>)
       IN /\ envReads' = [envReads EXCEPT !["mongo"] = @ \cup {"MONGO_URI"}]
          /\ loc' = [loc EXCEPT !["mongo"] = [uri |-> uri, str |-> str]]
          /\ \E ok \in BOOLEAN :
               /\ ops' = [ops EXCEPT !["mongo"] = Append(@, Call("Connect", ok))]
               /\ IF ok
                    THEN Goto("mongo", "ping")
                    ELSE Return("mongo", Empty,
                                Wrap(ErrStr(NewError(<<"mongo: connect failed">>), str), Empty))
    /\ UNCHANGED <<env, configs, zkWait>>

\* a CheckMongo that pings a second time when the first ping fails
MongoPing_Retry ==
    /\ pc["mongo"] = "ping"
    /\ \E ok \in BOOLEAN :
         LET str   == loc["mongo"].str
             log   == Append(ops["mongo"], Call("Ping", ok))
             again == ~ok /\ Len(ops["mongo"]) < 2
         IN IF again
              THEN /\ ops' = [ops EXCEPT !["mongo"] = log]
                   /\ UNCHANGED <<pc, ret>>
              ELSE /\ ops' = [ops EXCEPT !["mongo"] = MongoDeferred(log)]
                   /\ IF ok
                        THEN Return("mongo", str, NilErr)
                        ELSE Return("mongo", Empty,
                                    Wrap(ErrStr(NewError(<<"mongo: ping failed">>), str), Empty))
    /\ UNCHANGED <<env, configs, zkWait, envReads, loc>>

\* lines 83-90: client.Ping, and the return that runs the deferred Disconnect
MongoPing ==
    /\ pc["mongo"] = "ping"
    /\ \E ok \in BOOLEAN :
         LET str == loc["mongo"].str IN
         /\ ops' = [ops EXCEPT !["mongo"] = MongoDeferred(Append(@, Call("Ping", ok)))]
         /\ IF ok
              THEN Return("mongo", str, NilErr)
              ELSE Return("mongo", Empty,
                          Wrap(ErrStr(NewError(<<"mongo: ping failed">>), str), Empty))
    /\ UNCHANGED <<env, configs, zkWait, envReads, loc>>

(***************************************************************************)
(* CheckMinio.                                                             *)
(***************************************************************************)
\* a gate that takes every configured storage kind for the object store
MinioEnabled_AnyKind(stu) == stu.Enable # Empty

\* minioStu.Enable != "minio" returns at once
MinioEnabled(stu) == stu.Enable = <<"minio">>

\* a secure flag that needs both the scheme and the SSL flag
Secure_Both(scheme, useSSL) == scheme = <<"https">> /\ useSSL = <<"true">>

\* secure := u.Scheme == "https" || useSSL == "true"
Secure(scheme, useSSL) == scheme = <<"https">> \/ useSSL = <<"true">>

\* a CheckMinio that never calls the cancel function of its health probe
MinioDeferred_Missing(log) == log

\* defer cancel()
MinioDeferred(log) == Append(log, Call("cancel", TRUE))

\* fmt's %v of a bool
BoolStr(b) == IF b THEN <<"true">> ELSE <<"false">>

\* line 173, evaluated left to right with || cutting short: "panic" when an exactIP
\* that is evaluated dereferences a nil URL, else whether either host is 127.0.0.1
LoopbackCheck(stu) ==
    IF exactIPPanics(stu.ApiURL) THEN "panic"
    ELSE IF exactIP(stu.ApiURL) = Loopback THEN "loopback"
    ELSE IF exactIPPanics(stu.Minio.SignEndpoint) THEN "panic"
    ELSE IF exactIP(stu.Minio.SignEndpoint) = Loopback THEN "loopback"
    ELSE "ok"

\* a completeness test that looks at the endpoint only
MinioConfigMissing_EndpointOnly(endpoint, accessKeyID, secretAccessKey) == endpoint = Empty

\* line 137: endpoint == "" || accessKeyID == "" || secretAccessKey == ""
MinioConfigMissing(endpoint, accessKeyID, secretAccessKey) ==
    endpoint = Empty \/ accessKeyID = Empty \/ secretAccessKey = Empty

\* lines 127-158: the gate, the resolved settings, url.Parse and minio.New
MinioStart ==
    /\ pc["minio"] = "start"
    /\ IF ~MinioEnabled(minioStu)
         THEN /\ Return("minio", Empty, NilErr)
              /\ UNCHANGED <<ops, envReads, loc>>
         ELSE
           LET endpoint        == getEnv("MINIO_ENDPOINT", minioStu.Minio.Endpoint)
               accessKeyID     == getEnv("MINIO_ACCESS_KEY_ID", minioStu.Minio.AccessKeyID)
               secretAccessKey == getEnv("MINIO_SECRET_ACCESS_KEY", minioStu.Minio.SecretAccessKey)
               useSSL          == getEnv("MINIO_USE_SSL", <<"false">>)
               resolved        == [endpoint |-> endpoint, accessKeyID |-> accessKeyID,
                                   secretAccessKey |-> secretAccessKey, useSSL |-> useSSL]
               u               == Parse(endpoint)
               secure          == Secure(u.Scheme, useSSL)
               str             == <<"ths addr is:">> \o u.Host
           IN
           /\ envReads' = [envReads EXCEPT !["minio"] = @ \cup
                  {"MINIO_ENDPOINT", "MINIO_ACCESS_KEY_ID", "MINIO_SECRET_ACCESS_KEY",
                   "MINIO_USE_SSL"}]
           /\ IF MinioConfigMissing(endpoint, accessKeyID, secretAccessKey)
                THEN /\ Return("minio", Empty, Wrap(ErrConfig, <<"MinIO configuration missing">>))
                     /\ loc' = [loc EXCEPT !["minio"] = resolved]
                     /\ UNCHANGED ops
              ELSE IF ~u.ok
                THEN /\ Return("minio", Empty,
                               Wrap(ErrStr(NewError(<<"url: parse error">>),
                                           <<"the endpoint is:">> \o endpoint), Empty))
                     /\ loc' = [loc EXCEPT !["minio"] = resolved]
                     /\ UNCHANGED ops
              ELSE \E ok \in BOOLEAN :
                     /\ ops' = [ops EXCEPT !["minio"] = Append(@, Call("New", ok))]
                     /\ loc' = [loc EXCEPT !["minio"] =
                                    [endpoint |-> endpoint, accessKeyID |-> accessKeyID,
                                     secretAccessKey |-> secretAccessKey, useSSL |-> useSSL,
                                     host |-> u.Host, secure |-> secure, str |-> str]]
                     /\ IF ok
                          THEN Goto("minio", "health")
                          ELSE Return("minio", Empty,
                                 Wrap(NewError(<<"minio: invalid endpoint">>),
                                      <<"minio: invalid endpoint">> \o <<";host:">> \o u.Host
                                      \o <<",accessKeyID:">> \o accessKeyID
                                      \o <<",secretAccessKey:">> \o secretAccessKey
                                      \o <<",Secure:">> \o BoolStr(secure)))
    /\ UNCHANGED <<env, configs, zkWait>>

\* a CheckMinio that validates ApiURL and SignEndpoint also when HealthCheck fails
MinioHealthCheck_LoopbackFirst ==
    /\ pc["minio"] = "health"
    /\ \E ok \in BOOLEAN :
         /\ ops' = [ops EXCEPT !["minio"] = Append(@, Call("HealthCheck", ok))]
         /\ IF ok
              THEN Goto("minio", "offline")
            ELSE IF LoopbackCheck(minioStu) = "loopback"
              THEN Return("minio", Empty,
                          Wrap(ErrConfig,
                               <<"apiURL or Minio SignEndpoint endpoint contain 127.0.0.1">>))
            ELSE Return("minio", Empty,
                        Wrap(ErrStr(NewError(<<"minio: health check failed">>),
                                    loc["minio"].str), Empty))
    /\ UNCHANGED <<env, configs, zkWait, envReads, loc>>

\* lines 161-165: minioClient.HealthCheck
MinioHealthCheck ==
    /\ pc["minio"] = "health"
    /\ \E ok \in BOOLEAN :
         /\ ops' = [ops EXCEPT !["minio"] = Append(@, Call("HealthCheck", ok))]
         /\ IF ok
              THEN Goto("minio", "offline")
              ELSE Return("minio", Empty,
                          Wrap(ErrStr(NewError(<<"minio: health check failed">>),
                                      loc["minio"].str), Empty))
    /\ UNCHANGED <<env, configs, zkWait, envReads, loc>>

\* lines 167-177: minioClient.IsOffline, the loopback check, and the return (or the
\* panic) that runs the deferred cancel
MinioIsOffline ==
    /\ pc["minio"] = "offline"
    /\ \E offline \in BOOLEAN :
         LET str == loc["minio"].str
             lb  == LoopbackCheck(minioStu)
         IN
         /\ ops' = [ops EXCEPT !["minio"] =
                        MinioDeferred(Append(@, Call("IsOffline", ~offline)))]
         /\ IF offline
              THEN Return("minio", Empty,
                          Wrap(ErrComponentStart, <<"Minio server is offline;">> \o str))
            ELSE IF lb = "panic"
              THEN pc' = [pc EXCEPT !["minio"] = "panic"] /\ UNCHANGED ret
            ELSE IF lb = "loopback"
              THEN Return("minio", Empty,
                          Wrap(ErrConfig,
                               <<"apiURL or Minio SignEndpoint endpoint contain 127.0.0.1">>))
            ELSE Return("minio", str, NilErr)
    /\ UNCHANGED <<env, configs, zkWait, envReads, loc>>

(***************************************************************************)
(* CheckRedis.                                                             *)
(***************************************************************************)
\* a topology choice that builds a cluster client for any non-empty first address
RedisTopology_NonEmpty(redisAddresses) ==
    IF redisAddresses[1] # Empty THEN "cluster" ELSE "single"

\* if len(redisAddresses) > 1 { cluster } else { single }
RedisTopology(redisAddresses) ==
    IF Len(redisAddresses) > 1 THEN "cluster" ELSE "single"

\* defer redisClient.Close()
RedisDeferred(log) == Append(log, Call("Close", TRUE))

\* lines 183-206: the resolved settings, strings.Split, and the client constructor
RedisStart ==
    /\ pc["redis"] = "start"
    /\ LET address        == getEnv("REDIS_ADDRESS", Join(redisStu.Address, <<",">>))
           username       == getEnv("REDIS_USERNAME", redisStu.Username)
           password       == getEnv("REDIS_PASSWORD", redisStu.Password)
           redisAddresses == Split(address, ",")
           kind           == RedisTopology(redisAddresses)
           client         == [kind     |-> kind,
                              Addrs    |-> IF kind = "cluster" THEN redisAddresses
                                           ELSE <<redisAddresses[1]>>,
                              Username |-> username,
                              Password |-> password]
       IN /\ envReads' = [envReads EXCEPT !["redis"] = @ \cup
                             {"REDIS_ADDRESS", "REDIS_USERNAME", "REDIS_PASSWORD"}]
          /\ loc' = [loc EXCEPT !["redis"] =
                         [address |-> address, redisAddresses |-> redisAddresses,
                          redisClient |-> client]]
          /\ ops' = [ops EXCEPT !["redis"] = Append(@,
                         Call(IF kind = "cluster" THEN "NewClusterClient" ELSE "NewClient", TRUE))]
    /\ Goto("redis", "ping")
    /\ UNCHANGED <<env, configs, zkWait>>

\* a CheckRedis that hands out its address text together with the ping error
RedisPing_DescWithErr ==
    /\ pc["redis"] = "ping"
    /\ \E ok \in BOOLEAN :
         LET str == <<"the addr is:">> \o Join(loc["redis"].redisAddresses, <<",">>) IN
         /\ ops' = [ops EXCEPT !["redis"] = RedisDeferred(Append(@, Call("Ping", ok)))]
         /\ IF ok
              THEN Return("redis", str, NilErr)
              ELSE Return("redis", str,
                          Wrap(ErrStr(NewError(<<"redis: ping failed">>), str), Empty))
    /\ UNCHANGED <<env, configs, zkWait, envReads, loc>>

\* lines 209-215: redisClient.Ping, and the return that runs the deferred Close
RedisPing ==
    /\ pc["redis"] = "ping"
    /\ \E ok \in BOOLEAN :
         LET str == <<"the addr is:">> \o Join(loc["redis"].redisAddresses, <<",">>) IN
         /\ ops' = [ops EXCEPT !["redis"] = RedisDeferred(Append(@, Call("Ping", ok)))]
         /\ IF ok
              THEN Return("redis", str, NilErr)
              ELSE Return("redis", Empty,
                          Wrap(ErrStr(NewError(<<"redis: ping failed">>), str), Empty))
    /\ UNCHANGED <<env, configs, zkWait, envReads, loc>>

(***************************************************************************)
(* CheckZookeeper.                                                         *)
(***************************************************************************)
\* defer c.Close(), registered at the label Connected
ZkDeferred(log) == Append(log, Call("Close", TRUE))

\* a timeout error that reports the resolved address string
ZkTimeoutErr_Resolved(stu, address) ==
    Wrap(NewError(<<"timeout waiting for Zookeeper connection">>),
         <<"Zookeeper Addr: ">> \o address)

\* line 244: the error of the timeout branch
ZkTimeoutErr(stu, address) ==
    Wrap(NewError(<<"timeout waiting for Zookeeper connection">>),
         <<"Zookeeper Addr: ">> \o Join(stu.ZkAddr, <<" ">>))

\* lines 221-235: the resolved settings, zk.Connect, and the timer of the wait
ZkConnect ==
    /\ pc["zk"] = "start"
    /\ LET schema             == getEnv("ZOOKEEPER_SCHEMA", <<"digest">>)
           address            == getEnv("ZOOKEEPER_ADDRESS", Join(zkStu.ZkAddr, <<",">>))
           username           == getEnv("ZOOKEEPER_USERNAME", zkStu.Username)
           password           == getEnv("ZOOKEEPER_PASSWORD", zkStu.Password)
           zookeeperAddresses == Split(address, ",")
           str                == <<"the addr is:">> \o address
       IN /\ envReads' = [envReads EXCEPT !["zk"] = @ \cup
                             {"ZOOKEEPER_SCHEMA", "ZOOKEEPER_ADDRESS",
                              "ZOOKEEPER_USERNAME", "ZOOKEEPER_PASSWORD"}]
          /\ loc' = [loc EXCEPT !["zk"] =
                         [schema |-> schema, address |-> address, username |-> username,
                          password |-> password,
                          zookeeperAddresses |-> zookeeperAddresses, str |-> str]]
          /\ \E ok \in BOOLEAN :
               /\ ops' = [ops EXCEPT !["zk"] = Append(@, Call("Connect", ok))]
               /\ IF ok
                    THEN Goto("zk", "wait")
                    ELSE Return("zk", Empty,
                                Wrap(ErrStr(NewError(<<"zk: connect failed">>), str), Empty))
    /\ UNCHANGED <<env, configs, zkWait>>

\* the zk library sends an event on the channel it returned
ZkSendEvent ==
    /\ pc["zk"] = "wait"
    /\ produced < MaxEvents
    /\ \E st \in EventStates :
         /\ eventChan' = Append(eventChan, st)
         /\ IF st = "StateConnected" THEN Signalled("event") ELSE UNCHANGED signals
    /\ produced' = produced + 1
    /\ UNCHANGED <<env, configs, pc, ret, ops, envReads, loc, timerFired>>

\* the zk library sends events for as long as the channel has room (MaxEvents pending)
ZkSendEventAny ==
    /\ pc["zk"] = "wait"
    /\ Len(eventChan) < MaxEvents
    /\ \E st \in EventStates :
         /\ eventChan' = Append(eventChan, st)
         /\ IF st = "StateConnected" THEN Signalled("event") ELSE UNCHANGED signals
    /\ UNCHANGED <<env, configs, pc, ret, ops, envReads, loc, timerFired, produced>>

\* the runtime delivers the value of time.After(5 * time.Second)
TimerFire ==
    /\ pc["zk"] = "wait"
    /\ ~timerFired
    /\ timerFired' = TRUE
    /\ Signalled("timer")
    /\ UNCHANGED <<env, configs, pc, ret, ops, envReads, loc, eventChan, produced>>

\* a wait that builds its timer anew in every round of the loop
ZkRecvEvent_TimerReset ==
    /\ pc["zk"] = "wait"
    /\ eventChan # <<>>
    /\ eventChan' = Tail(eventChan)
    /\ IF Head(eventChan) = "StateConnected"
         THEN Goto("zk", "connected") /\ UNCHANGED timerFired
         ELSE timerFired' = FALSE /\ UNCHANGED <<pc, ret>>
    /\ UNCHANGED <<env, configs, ops, envReads, loc, produced, signals>>

\* lines 238-242: case event := <-eventChan
ZkRecvEvent ==
    /\ pc["zk"] = "wait"
    /\ eventChan # <<>>
    /\ eventChan' = Tail(eventChan)
    /\ IF Head(eventChan) = "StateConnected"
         THEN Goto("zk", "connected")
         ELSE UNCHANGED <<pc, ret>>
    /\ UNCHANGED <<env, configs, ops, envReads, loc, timerFired, produced, signals>>

\* lines 243-244: case <-timeout
ZkRecvTimeout ==
    /\ pc["zk"] = "wait"
    /\ timerFired
    /\ Return("zk", Empty, ZkTimeoutErr(zkStu, loc["zk"].address))
    /\ UNCHANGED <<env, configs, ops, envReads, loc, zkWait>>

\* an authentication that needs only one of username and password
ZkHasCredentials_Either(username, password) == username # Empty \/ password # Empty

\* line 251: if username != "" && password != ""
ZkHasCredentials(username, password) == username # Empty /\ password # Empty

\* lines 247-257: the deferred Close, the optional AddAuth, and the return
ZkConnected ==
    /\ pc["zk"] = "connected"
    /\ LET l == loc["zk"] IN
       IF ZkHasCredentials(l.username, l.password)
         THEN \E ok \in BOOLEAN :
                /\ ops' = [ops EXCEPT !["zk"] = ZkDeferred(Append(@, Call("AddAuth", ok)))]
                /\ IF ok
                     THEN Return("zk", l.str, NilErr)
                     ELSE Return("zk", Empty,
                                 Wrap(ErrStr(NewError(<<"zk: auth failed">>), l.str), Empty))
         ELSE /\ ops' = [ops EXCEPT !["zk"] = ZkDeferred(@)]
              /\ Return("zk", l.str, NilErr)
    /\ UNCHANGED <<env, configs, envReads, loc, zkWait>>

(***************************************************************************)
(* CheckKafka.                                                             *)
(***************************************************************************)
\* a CheckKafka without the deferred Close
KafkaDeferred_Missing(log) == log

\* defer kafkaClient.Close()
KafkaDeferred(log) == Append(log, Call("Close", TRUE))

\* lines 294-298
requiredTopics(stu) ==
    <<stu.MsgToMongo.Topic, stu.MsgToPush.Topic, stu.LatestMsgToRedis.Topic>>

\* lines 263-286: the resolved settings, the SASL configuration and sarama.NewClient
KafkaNewClient ==
    /\ pc["kafka"] = "start"
    /\ LET username       == getEnv("KAFKA_USERNAME", kafkaStu.Username)
           password       == getEnv("KAFKA_PASSWORD", kafkaStu.Password)
           address        == getEnv("KAFKA_ADDRESS", Join(kafkaStu.Addr, <<",">>))
           kafkaAddresses == Split(address, ",")
           sasl           == username # Empty /\ password # Empty
           str            == <<"the addr is:">> \o address
       IN /\ envReads' = [envReads EXCEPT !["kafka"] = @ \cup
                             {"KAFKA_USERNAME", "KAFKA_PASSWORD", "KAFKA_ADDRESS"}]
          /\ loc' = [loc EXCEPT !["kafka"] =
                         [address |-> address, kafkaAddresses |-> kafkaAddresses,
                          sasl |-> sasl, str |-> str, topics |-> <<>>]]
          /\ \E ok \in BOOLEAN :
               /\ ops' = [ops EXCEPT !["kafka"] = Append(@, Call("NewClient", ok))]
               /\ IF ok
                    THEN Goto("kafka", "topics")
                    ELSE Return("kafka", Empty,
                                Wrap(ErrStr(NewError(<<"kafka: client failed">>), str), Empty))
    /\ UNCHANGED <<env, configs, zkWait>>

\* lines 289-306: kafkaClient.Topics, the loop over the required topics, and the
\* return that runs the deferred Close
KafkaTopics ==
    /\ pc["kafka"] = "topics"
    /\ \E ok \in BOOLEAN, live \in TopicLists :
         LET topics  == IF ok THEN live ELSE <<>>
             req     == requiredTopics(kafkaStu)
             missing == FirstMissing(req, topics, 1)
         IN
         /\ ~ok => live = <<>>
         /\ ops' = [ops EXCEPT !["kafka"] = KafkaDeferred(Append(@, Call("Topics", ok)))]
         /\ loc' = [loc EXCEPT !["kafka"].topics = topics]
         /\ IF ~ok
              THEN Return("kafka", Empty, Wrap(NewError(<<"kafka: topics failed">>), Empty))
            ELSE IF missing # 0
              THEN Return("kafka", Empty,
                          Wrap(ErrComponentStart,
                               <<"Kafka doesn't contain topic: ">> \o req[missing]))
            ELSE Return("kafka", loc["kafka"].str, NilErr)
    /\ UNCHANGED <<env, configs, zkWait, envReads>>

(***************************************************************************)
(* The specification: one invocation of one checker, its backend and the   *)
(* runtime answering as they may.                                          *)
(***************************************************************************)
Next ==
    \/ MongoConnect
    \/ MongoPing
    \/ MinioStart
    \/ MinioHealthCheck
    \/ MinioIsOffline
    \/ RedisStart
    \/ RedisPing
    \/ ZkConnect
    \/ ZkSendEvent
    \/ TimerFire
    \/ ZkRecvEvent
    \/ ZkRecvTimeout
    \/ ZkConnected
    \/ KafkaNewClient
    \/ KafkaTopics

Spec == Init /\ [][Next]_vars

(***************************************************************************)
(* CheckZookeeper alone, with a zk library that never runs out of events,  *)
(* a timer that fires, and a select that does not pass over the timeout    *)
(* case for ever once the timer's value is there (Go's select picks among  *)
(* the ready cases at random).                                             *)
(***************************************************************************)
InitLive == InitCommon /\ InitZk

NextLive ==
    \/ ZkConnect
    \/ ZkSendEventAny
    \/ TimerFire
    \/ ZkRecvEvent
    \/ ZkRecvTimeout
    \/ ZkConnected

SpecLive ==
    /\ InitLive
    /\ [][NextLive]_vars
    /\ WF_vars(ZkConnect)
    /\ WF_vars(TimerFire)
    /\ WF_vars(ZkRecvTimeout)

(***************************************************************************)
(* Several checkers invoked together, as a start-up routine that runs      *)
(* them concurrently (or one after the other, in any order) would: every   *)
(* step of Next is a step of one of them, of its backend or of the timer.  *)
(* Any set of up to MaxPar checkers is invoked.                            *)
(***************************************************************************)
ParMongo == [Address |-> <<<<"a">>, <<"b">>>>, Username |-> <<"u">>, Password |-> <<"p">>,
             Database |-> <<"openim">>, MaxPoolSize |-> 100]
ParMinio == [Enable |-> <<"minio">>, ApiURL |-> <<"http", ":", "//", "h", ":", "9000">>,
             Minio |-> [Endpoint |-> <<"http", ":", "//", "h", ":", "9000">>,
                        AccessKeyID |-> <<"ak">>, SecretAccessKey |-> <<"sk">>,
                        SignEndpoint |-> <<"http", ":", "//", "h", ":", "9000">>]]
ParRedis == [Address |-> <<<<"a">>>>, Username |-> Empty, Password |-> Empty]
ParZk    == [ZkAddr |-> <<<<"b">>>>, Username |-> <<"u">>, Password |-> <<"p">>]
ParKafka == [Addr |-> <<<<"a">>>>, Username |-> Empty, Password |-> Empty,
             MsgToMongo |-> [Topic |-> <<"t">>], MsgToPush |-> [Topic |-> <<"t">>],
             LatestMsgToRedis |-> [Topic |-> <<"w">>]]

\* an environment that overrides one setting of every checker
ParEnv ==
    [NoEnv EXCEPT !["MONGO_URI"] = Set(<<"mongodb://", "a">>),
                  !["MINIO_USE_SSL"] = Set(<<"true">>),
                  !["REDIS_ADDRESS"] = Set(<<"a", ",", "a">>),
                  !["ZOOKEEPER_ADDRESS"] = Set(<<"a">>),
                  !["KAFKA_ADDRESS"] = Set(<<"a", ",", "a">>)]

InitPar ==
    /\ InitCommon
    /\ \E S \in SUBSET Checkers :
         /\ Cardinality(S) \in 1..MaxPar
         /\ pc = [c \in Checkers |-> IF c \in S THEN "start" ELSE "idle"]
    /\ env \in {NoEnv, ParEnv}
    /\ mongoStu = ParMongo /\ minioStu = ParMinio /\ redisStu = ParRedis
    /\ zkStu = ParZk /\ kafkaStu = ParKafka

SpecPar == InitPar /\ [][Next]_vars

(***************************************************************************)
(* Vocabulary of the properties.                                           *)
(***************************************************************************)
\* how many times call op occurs in a log
Count(log, op) == Cardinality({i \in 1..Len(log) : log[i].op = op})

\* the calls that release what a checker holds
ReleaseOps == {"Disconnect", "Close", "cancel"}

\* the value the environment and the configuration determine for a setting
Resolved(key, fallback) == IF env[key].exists THEN env[key].value ELSE fallback

\* checker c has returned
Done(c) == pc[c] = "done"

TimeoutMsg == <<"timeout waiting for Zookeeper connection">>

\* CheckZookeeper left its wait through the timeout branch
ZkTimedOut == Done("zk") /\ ops["zk"] = <<Call("Connect", TRUE)>>

(***************************************************************************)
(* C1.  CheckZookeeper: on every return path after zk.Connect returned a   *)
(* connection without error, the connection handle has been closed exactly *)
(* once when the function returns.                                         *)
(* The timeout branch (line 244) returns before the defer c.Close() of     *)
(* line 248 is registered, so the claim is violated there.                 *)
(***************************************************************************)
C1_ZkHandleClosedOnEveryPath ==
    (Done("zk") /\ Len(ops["zk"]) > 0 /\ ops["zk"][1] = Call("Connect", TRUE))
        => Count(ops["zk"], "Close") = 1

(***************************************************************************)
(* C2.  CheckZookeeper: when the timer fires before a Connected event is   *)
(* received, the result is the empty descriptor and the timeout error      *)
(* whose context is "Zookeeper Addr: " followed by the configured          *)
(* zkStu.ZkAddr joined with spaces, whatever ZOOKEEPER_ADDRESS holds.      *)
(***************************************************************************)
C2_TimeoutReportsConfiguredAddrs ==
    ZkTimedOut =>
        /\ ret["zk"].desc = Empty
        /\ ret["zk"].err.kind = "error"
        /\ ret["zk"].err.msg = TimeoutMsg
        /\ ret["zk"].err.ctx = <<"Zookeeper Addr: ">> \o Join(zkStu.ZkAddr, <<" ">>)

\* a timeout with ZOOKEEPER_ADDRESS set to something else than the configured list
C2_Witness ==
    /\ ZkTimedOut
    /\ zkStu.ZkAddr = <<<<"b">>, <<"a">>>>
    /\ env["ZOOKEEPER_ADDRESS"] = Set(<<"a">>)
    /\ ret["zk"].err.ctx = <<"Zookeeper Addr: ", "b", " ", "a">>

(***************************************************************************)
(* C3.  getEnv(key, fallback) is the value of the environment variable     *)
(* when it is set, also when it is set to "", and fallback otherwise; the  *)
(* environment is never modified.                                          *)
(***************************************************************************)
C3_ResolvedSettings ==
    /\ pc["mongo"] \in {"ping", "done"} =>
           loc["mongo"].uri = Resolved("MONGO_URI", buildMongoURI(mongoStu))
    /\ (pc["minio"] \in {"health", "offline", "panic", "done"} /\ envReads["minio"] # {}) =>
           /\ loc["minio"].endpoint = Resolved("MINIO_ENDPOINT", minioStu.Minio.Endpoint)
           /\ loc["minio"].accessKeyID =
                  Resolved("MINIO_ACCESS_KEY_ID", minioStu.Minio.AccessKeyID)
           /\ loc["minio"].secretAccessKey =
                  Resolved("MINIO_SECRET_ACCESS_KEY", minioStu.Minio.SecretAccessKey)
           /\ loc["minio"].useSSL = Resolved("MINIO_USE_SSL", <<"false">>)
    /\ pc["redis"] \in {"ping", "done"} =>
           /\ loc["redis"].address =
                  Resolved("REDIS_ADDRESS", Join(redisStu.Address, <<",">>))
           /\ loc["redis"].redisClient.Username = Resolved("REDIS_USERNAME", redisStu.Username)
           /\ loc["redis"].redisClient.Password = Resolved("REDIS_PASSWORD", redisStu.Password)
    /\ pc["zk"] \in {"wait", "connected", "done"} =>
           /\ loc["zk"].schema = Resolved("ZOOKEEPER_SCHEMA", <<"digest">>)
           /\ loc["zk"].address = Resolved("ZOOKEEPER_ADDRESS", Join(zkStu.ZkAddr, <<",">>))
           /\ loc["zk"].username = Resolved("ZOOKEEPER_USERNAME", zkStu.Username)
           /\ loc["zk"].password = Resolved("ZOOKEEPER_PASSWORD", zkStu.Password)
    /\ pc["kafka"] \in {"topics", "done"} =>
           loc["kafka"].address = Resolved("KAFKA_ADDRESS", Join(kafkaStu.Addr, <<",">>))

C3_GetEnv == [](C3_ResolvedSettings) /\ [][env' = env]_vars

\* a variable set to "" overrides a non-empty configured value
C3_Witness ==
    /\ Done("minio")
    /\ env["MINIO_ENDPOINT"] = Set(Empty)
    /\ minioStu.Minio.Endpoint # Empty
    /\ envReads["minio"] # {}
    /\ loc["minio"].endpoint = Empty

(***************************************************************************)
(* C4.  CheckKafka, once the live topic list is obtained: success iff each *)
(* of the three required topics is, as an exact string, a member of the    *)
(* live list; otherwise a component-start error that names the first       *)
(* absent required topic (in the order MsgToMongo, MsgToPush,              *)
(* LatestMsgToRedis) and nothing else.                                     *)
(***************************************************************************)
C4_KafkaTopics ==
    (Done("kafka") /\ Call("Topics", TRUE) \in {ops["kafka"][i] : i \in 1..Len(ops["kafka"])}) =>
        LET req     == <<kafkaStu.MsgToMongo.Topic, kafkaStu.MsgToPush.Topic,
                         kafkaStu.LatestMsgToRedis.Topic>>
            live    == {loc["kafka"].topics[i] : i \in 1..Len(loc["kafka"].topics)}
            absent  == {i \in 1..3 : req[i] \notin live}
            first   == CHOOSE i \in absent : \A j \in absent : i <= j
        IN IF absent = {}
             THEN /\ ret["kafka"].err = NilErr
                  /\ ret["kafka"].desc = <<"the addr is:">> \o loc["kafka"].address
             ELSE /\ ret["kafka"].desc = Empty
                  /\ ret["kafka"].err.code = componentStartErrCode
                  /\ ret["kafka"].err.ctx = <<"Kafka doesn't contain topic: ">> \o req[first]

\* the first required topic is present, the two others are absent: the second is named
C4_Witness ==
    /\ Done("kafka")
    /\ loc["kafka"].topics = <<<<"t">>>>
    /\ kafkaStu.MsgToMongo.Topic = <<"t">>
    /\ kafkaStu.MsgToPush.Topic = <<"t", "x">>
    /\ kafkaStu.LatestMsgToRedis.Topic = <<"w">>
    /\ ret["kafka"].err.ctx = <<"Kafka doesn't contain topic: ", "t", "x">>

(***************************************************************************)
(* C5.  CheckRedis splits the resolved address string on commas; it builds *)
(* a cluster client iff the split has more than one element, else a        *)
(* single-node client on the first element; for every address string, ""   *)
(* included, exactly one client is built, exactly one ping is issued       *)
(* against it and exactly one outcome, a success or a failure, is          *)
(* returned.                                                               *)
(***************************************************************************)
C5_RedisOneClientOnePing ==
    pc["redis"] \in {"ping", "done"} =>
        LET address == Resolved("REDIS_ADDRESS", Join(redisStu.Address, <<",">>))
            commas  == Cardinality({i \in 1..Len(address) : address[i] = ","})
            parts   == loc["redis"].redisAddresses
            client  == loc["redis"].redisClient
            log     == ops["redis"]
        IN
        \* the split: commas+1 comma-free pieces that join back to the address
        /\ Len(parts) = commas + 1
        /\ \A i \in 1..Len(parts) : \A j \in 1..Len(parts[i]) : parts[i][j] # ","
        /\ Join(parts, <<",">>) = address
        \* the topology
        /\ client.kind = IF Len(parts) > 1 THEN "cluster" ELSE "single"
        /\ client.kind = "cluster" => client.Addrs = parts
        /\ client.kind = "single" => client.Addrs = <<parts[1]>>
        \* one client, one ping, one outcome
        /\ Count(log, "NewClusterClient") + Count(log, "NewClient") = 1
        /\ log[1].op = IF client.kind = "cluster" THEN "NewClusterClient" ELSE "NewClient"
        /\ pc["redis"] = "ping" => Len(log) = 1
        /\ Done("redis") =>
               /\ Count(log, "Ping") = 1
               /\ log[2].op = "Ping"
               /\ log[2].ok => (ret["redis"].err = NilErr /\ ret["redis"].desc # Empty)
               /\ ~log[2].ok => (ret["redis"].err # NilErr /\ ret["redis"].desc = Empty)

\* the empty address string: one single-node client on "", one ping, one outcome
C5_Witness ==
    /\ Done("redis")
    /\ env["REDIS_ADDRESS"] = Set(Empty)
    /\ redisStu.Address = <<<<"a">>, <<"b">>>>
    /\ loc["redis"].redisClient.kind = "single"
    /\ loc["redis"].redisClient.Addrs = <<Empty>>
    /\ Count(ops["redis"], "Ping") = 1

(***************************************************************************)
(* C6.  CheckMinio, enabled, with resolved endpoint and keys non-empty,    *)
(* the client built, the health probe set up and the store not offline:    *)
(* when the host of ApiURL or of Minio.SignEndpoint is 127.0.0.1, the      *)
(* checker returns the empty descriptor and the configuration error.       *)
(* exactIP drops the error of url.Parse and dereferences the nil URL, so   *)
(* with an ApiURL that does not parse the checker panics before it looks   *)
(* at a SignEndpoint whose host is 127.0.0.1: the claim is violated there. *)
(***************************************************************************)
HostIsLoopback(urll) ==
    /\ Parse(urll).ok
    /\ LET h == Parse(urll).Host
           i == LastIndex(h, ":", Len(h))
       IN h = Loopback \/ (i = 2 /\ SubSeq(h, 1, 1) = Loopback)

C6_LoopbackIsConfigError ==
    (/\ pc["minio"] \in {"panic", "done"}
     /\ Call("IsOffline", TRUE) \in {ops["minio"][i] : i \in 1..Len(ops["minio"])}
     /\ (HostIsLoopback(minioStu.ApiURL) \/ HostIsLoopback(minioStu.Minio.SignEndpoint)))
        => /\ Done("minio")
           /\ ret["minio"].desc = Empty
           /\ ret["minio"].err.code = configErrCode

(***************************************************************************)
(* C7.  CheckMinio hands minio.New the flag Secure = TRUE iff the scheme   *)
(* of the parsed endpoint is "https" or the resolved MINIO_USE_SSL is      *)
(* exactly "true": "https" with flag "false" gives TRUE, "http" with the   *)
(* flag unset gives FALSE.                                                 *)
(***************************************************************************)
C7_SecureIffHttpsOrSSL ==
    (Len(ops["minio"]) > 0 /\ ops["minio"][1].op = "New") =>
        LET endpoint == Resolved("MINIO_ENDPOINT", minioStu.Minio.Endpoint)
            useSSL   == Resolved("MINIO_USE_SSL", <<"false">>)
            https    == Parse(endpoint).Scheme = <<"https">>
            secure   == loc["minio"].secure
        IN /\ secure = TRUE <=> (https \/ useSSL = <<"true">>)
           /\ (https /\ useSSL = <<"false">>) => secure = TRUE
           /\ (Parse(endpoint).Scheme = <<"http">> /\ ~env["MINIO_USE_SSL"].exists)
                  => secure = FALSE

\* scheme "https" with MINIO_USE_SSL set to "false": secure all the same
C7_Witness ==
    /\ Len(ops["minio"]) > 0
    /\ ops["minio"][1].op = "New"
    /\ minioStu.Minio.Endpoint = <<"https", ":", "//", "h", ":", "9000">>
    /\ ~env["MINIO_ENDPOINT"].exists
    /\ env["MINIO_USE_SSL"] = Set(<<"false">>)
    /\ loc["minio"].secure = TRUE

(***************************************************************************)
(* C8.  CheckMinio with Enable other than "minio" returns the empty        *)
(* descriptor and a nil error without resolving a setting, building a      *)
(* client or issuing a probe, whatever the other fields hold.              *)
(***************************************************************************)
C8_MinioSkippedWhenNotEnabled ==
    (minioStu.Enable # <<"minio">> /\ pc["minio"] \notin {"idle", "start"}) =>
        /\ Done("minio")
        /\ ret["minio"] = [desc |-> Empty, err |-> NilErr]
        /\ ops["minio"] = <<>>
        /\ envReads["minio"] = {}

\* skipped although the keys are empty and ApiURL is a loopback URL
C8_Witness ==
    /\ Done("minio")
    /\ minioStu.Enable = <<"cos">>
    /\ minioStu.Minio.AccessKeyID = Empty
    /\ minioStu.Minio.SecretAccessKey = Empty
    /\ minioStu.ApiURL = <<"http", ":", "//", "127.0.0.1", ":", "9000">>
    /\ ret["minio"] = [desc |-> Empty, err |-> NilErr]

(***************************************************************************)
(* C9.  CheckMongo, CheckRedis, CheckKafka: a client that was obtained is  *)
(* closed exactly once, as the last call before the function returns, on   *)
(* every later path; when construction fails no close is attempted.        *)
(***************************************************************************)
C9_Close(c) == IF c = "mongo" THEN "Disconnect" ELSE "Close"

C9_ClientsClosedOnce ==
    \A c \in {"mongo", "redis", "kafka"} :
        LET log      == ops[c]
            obtained == Len(log) > 0 /\ log[1].ok
        IN /\ ~Done(c) => Count(log, C9_Close(c)) = 0
           /\ (Done(c) /\ obtained) =>
                  /\ Count(log, C9_Close(c)) = 1
                  /\ log[Len(log)].op = C9_Close(c)
           /\ (Done(c) /\ ~obtained) => Count(log, C9_Close(c)) = 0

\* CheckKafka returned the missing-topic failure and closed its client
C9_Witness ==
    /\ Done("kafka")
    /\ ret["kafka"].err.code = componentStartErrCode
    /\ ops["kafka"] = <<Call("NewClient", TRUE), Call("Topics", TRUE), Call("Close", TRUE)>>

(***************************************************************************)
(* C10.  No checker retries: within one invocation each backend call       *)
(* (connect/construct, ping/health probe, topic query, auth) is issued at  *)
(* most once, and once a call has failed the checker issues no further     *)
(* backend call and returns a failure.                                     *)
(***************************************************************************)
C10_FirstErrorNoRetry ==
    \A c \in Checkers :
        LET log == ops[c] IN
        /\ \A i, j \in 1..Len(log) : (i # j) => log[i].op # log[j].op
        /\ \A i \in 1..Len(log) :
               ~log[i].ok =>
                   /\ \A j \in (i + 1)..Len(log) : log[j].op \in ReleaseOps
                   /\ Done(c)
                   /\ ret[c].err # NilErr
                   /\ ret[c].desc = Empty

\* CheckMongo returned the failure of its only ping
C10_Witness ==
    /\ Done("mongo")
    /\ ops["mongo"] = <<Call("Connect", TRUE), Call("Ping", FALSE), Call("Disconnect", TRUE)>>
    /\ ret["mongo"].err # NilErr

(***************************************************************************)
(* C11.  CheckMinio, enabled, with resolved endpoint and keys non-empty    *)
(* and a 127.0.0.1 host in ApiURL or SignEndpoint.                         *)
(* As claimed: the loopback configuration error is reported whether or not *)
(* endpoint parsing, minio.New, HealthCheck or the offline query failed.   *)
(* The code returns at the first failure, and line 173 comes last.         *)
(* As amended: when one of those steps fails, CheckMinio returns that      *)
(* step's error and not the loopback configuration error; the loopback     *)
(* configuration error is returned only after the endpoint parsed,         *)
(* minio.New and HealthCheck succeeded and IsOffline answered false.       *)
(***************************************************************************)
LoopbackErr ==
    Wrap(ErrConfig, <<"apiURL or Minio SignEndpoint endpoint contain 127.0.0.1">>)

\* CheckMinio returned, was enabled, passed the check of line 137, and a public URL
\* has host 127.0.0.1
C11_Case ==
    /\ Done("minio")
    /\ minioStu.Enable = <<"minio">>
    /\ Resolved("MINIO_ENDPOINT", minioStu.Minio.Endpoint) # Empty
    /\ Resolved("MINIO_ACCESS_KEY_ID", minioStu.Minio.AccessKeyID) # Empty
    /\ Resolved("MINIO_SECRET_ACCESS_KEY", minioStu.Minio.SecretAccessKey) # Empty
    /\ (HostIsLoopback(minioStu.ApiURL) \/ HostIsLoopback(minioStu.Minio.SignEndpoint))

C11_LoopbackReportedRegardless == C11_Case => ret["minio"].err = LoopbackErr

C11_LoopbackOnlyAfterConnectivity ==
    C11_Case =>
        LET log      == ops["minio"]
            parsed   == Parse(Resolved("MINIO_ENDPOINT", minioStu.Minio.Endpoint)).ok
            failedAt == {i \in 1..Len(log) : ~log[i].ok}
        IN /\ ~parsed => (log = <<>> /\ ret["minio"].err.kind = "error")
           /\ \A i \in failedAt :
                  /\ ret["minio"].err # LoopbackErr
                  /\ ret["minio"].err # NilErr
                  /\ log[i].op \in {"New", "HealthCheck"} => ret["minio"].err.kind = "error"
                  /\ log[i].op = "IsOffline" => ret["minio"].err.code = componentStartErrCode
           /\ ret["minio"].err = LoopbackErr =>
                  log = <<Call("New", TRUE), Call("HealthCheck", TRUE),
                          Call("IsOffline", TRUE), Call("cancel", TRUE)>>

\* ApiURL is a loopback URL, HealthCheck failed: its error is what is returned
C11_Witness ==
    /\ C11_Case
    /\ HostIsLoopback(minioStu.ApiURL)
    /\ ops["minio"] = <<Call("New", TRUE), Call("HealthCheck", FALSE)>>
    /\ ret["minio"].err.kind = "error"
    /\ ret["minio"].err # LoopbackErr

(***************************************************************************)
(* C12.  CheckZookeeper runs Connecting -> Connected, ConnectFailed or     *)
(* TimedOut.  AddAuth is attempted only after a Connected event has been   *)
(* received, and only when the resolved username and the resolved password *)
(* are both non-empty; otherwise Connected ends in success without an      *)
(* authentication.  ConnectFailed and TimedOut are terminal: no            *)
(* authentication and no event wait follows them.                          *)
(***************************************************************************)
C12_ZkUser == Resolved("ZOOKEEPER_USERNAME", zkStu.Username)

C12_ZkPass == Resolved("ZOOKEEPER_PASSWORD", zkStu.Password)

\* CheckZookeeper has received a Connected event
C12_Connected == pc["zk"] = "connected" \/ Count(ops["zk"], "Close") > 0

C12_ConnectFailed == Done("zk") /\ ops["zk"] = <<Call("Connect", FALSE)>>

C12_States ==
    /\ Count(ops["zk"], "AddAuth") > 0 =>
          /\ Count(ops["zk"], "AddAuth") = 1
          /\ C12_Connected
          /\ C12_ZkUser # Empty /\ C12_ZkPass # Empty
    /\ (Done("zk") /\ C12_Connected) =>
          IF C12_ZkUser # Empty /\ C12_ZkPass # Empty
            THEN /\ Count(ops["zk"], "AddAuth") = 1
                 /\ ops["zk"][2].op = "AddAuth"
                 /\ ops["zk"][2].ok <=> ret["zk"].err = NilErr
            ELSE /\ Count(ops["zk"], "AddAuth") = 0
                 /\ ret["zk"].err = NilErr
                 /\ ret["zk"].desc # Empty
    /\ C12_ConnectFailed =>
          /\ ret["zk"].err # NilErr
          /\ eventChan = <<>> /\ produced = 0 /\ ~timerFired
    /\ ZkTimedOut => ret["zk"].err # NilErr
    /\ Done("zk") => (C12_ConnectFailed \/ ZkTimedOut \/ C12_Connected)

C12_Steps ==
    /\ (pc["zk"] # "connected" /\ pc'["zk"] = "connected") =>
          /\ pc["zk"] = "wait"
          /\ eventChan # <<>> /\ Head(eventChan) = "StateConnected"
          /\ eventChan' = Tail(eventChan)
    /\ Count(ops'["zk"], "AddAuth") > Count(ops["zk"], "AddAuth") => pc["zk"] = "connected"
    /\ Done("zk") => UNCHANGED vars

C12_ZkStateMachine == [](C12_States) /\ [][C12_Steps]_vars

C12_Witness ==
    /\ Done("zk")
    /\ Count(ops["zk"], "AddAuth") = 1
    /\ ret["zk"].err = NilErr

(***************************************************************************)
(* C13.  CheckZookeeper's wait: whichever of the two signals fires first   *)
(* determines the outcome.  If a Connected event became available on the   *)
(* event stream before the timer fired, the checker does not return the    *)
(* timeout failure; if the timer fired before any Connected event became   *)
(* available, the checker does not proceed to Connected.                   *)
(* The select of lines 237-245 looks at what is ready when it runs, not at *)
(* what became ready first: with both cases ready it takes either, and a   *)
(* Connected event queued behind other events is not ready yet.            *)
(***************************************************************************)
C13_First(sig) == signals # <<>> /\ signals[1] = sig

C13_FirstSignalDecides ==
    /\ C13_First("event") => ~ZkTimedOut
    /\ C13_First("timer") => ~C12_Connected

(***************************************************************************)
(* C14.  After zk.Connect succeeded, the wait loop of CheckZookeeper       *)
(* always eventually exits.  The timer is created once before the loop     *)
(* and never reset: once fired it stays fired, whatever events arrive, so  *)
(* no supply of non-Connected events (a closed channel delivers zero-value *)
(* events, State 0 = StateDisconnected, for ever) postpones the deadline;  *)
(* the loop is left to Connected or through the timeout branch.            *)
(* Checked under SpecLive: the timer fires and a ready timeout case is     *)
(* eventually taken.                                                       *)
(***************************************************************************)
C14_TimerNeverReset == timerFired => timerFired'

C14_WaitLoopExits ==
    /\ [][C14_TimerNeverReset]_vars
    /\ (pc["zk"] = "wait") ~> (C12_Connected \/ ZkTimedOut)
    /\ (pc["zk"] = "wait" /\ timerFired /\ [](pc["zk"] # "connected")) ~> ZkTimedOut

\* the timeout branch was taken with only non-Connected events still on the channel
C14_Witness ==
    /\ ZkTimedOut
    /\ Len(eventChan) = MaxEvents
    /\ \A i \in 1..Len(eventChan) : eventChan[i] # "StateConnected"
    /\ signals = <<"timer">>

(***************************************************************************)
(* C15.  For every checker, a connectivity failure (failed connect or      *)
(* construct, failed ping) carries as context the resolved address(es):    *)
(* the value of the environment when an override is set, not the           *)
(* configured addresses; CheckMongo with MONGO_URI set included.           *)
(* CheckMongo builds its context from mongoStu.Address (line 75) whatever  *)
(* URI it connects to, so the claim is violated there.                     *)
(***************************************************************************)
\* text s contains text sub
C15_Contains(s, sub) ==
    \E i \in 1..(Len(s) - Len(sub) + 1) : SubSeq(s, i, i + Len(sub) - 1) = sub

\* the text of an error: its message and its context
C15_Text(err) == err.msg \o err.ctx

\* the host list of a mongodb URI: after the scheme and the credentials, up to the path
C15_UriHosts(uri) ==
    LET noScheme == IF HasPrefix(uri, "mongodb://") THEN Tail(uri) ELSE uri
        at       == Index(noScheme, "@", 1)
        noCreds  == SubSeq(noScheme, at + 1, Len(noScheme))
        slash    == Index(noCreds, "/", 1)
    IN IF slash = 0 THEN noCreds ELSE SubSeq(noCreds, 1, slash - 1)

\* checker c returned at a failed call op
C15_FailedAt(c, op) ==
    /\ Done(c)
    /\ \E i \in 1..Len(ops[c]) : ops[c][i] = Call(op, FALSE)

C15_Mongo ==
    (C15_FailedAt("mongo", "Connect") \/ C15_FailedAt("mongo", "Ping")) =>
        C15_Contains(C15_Text(ret["mongo"].err),
                     C15_UriHosts(Resolved("MONGO_URI", buildMongoURI(mongoStu))))

C15_Others ==
    /\ (C15_FailedAt("minio", "New") \/ C15_FailedAt("minio", "HealthCheck")) =>
          C15_Contains(C15_Text(ret["minio"].err),
                       Parse(Resolved("MINIO_ENDPOINT", minioStu.Minio.Endpoint)).Host)
    /\ C15_FailedAt("redis", "Ping") =>
          C15_Contains(C15_Text(ret["redis"].err),
                       Resolved("REDIS_ADDRESS", Join(redisStu.Address, <<",">>)))
    /\ C15_FailedAt("zk", "Connect") =>
          C15_Contains(C15_Text(ret["zk"].err),
                       Resolved("ZOOKEEPER_ADDRESS", Join(zkStu.ZkAddr, <<",">>)))
    /\ C15_FailedAt("kafka", "NewClient") =>
          C15_Contains(C15_Text(ret["kafka"].err),
                       Resolved("KAFKA_ADDRESS", Join(kafkaStu.Addr, <<",">>)))

C15_FailureCarriesResolvedAddrs == C15_Mongo /\ C15_Others

(***************************************************************************)
(* C16.  CheckMinio with the object store enabled: when the resolved       *)
(* endpoint, access key or secret key is "" (also when the environment     *)
(* overrides a non-empty configured value with ""), the checker returns    *)
(* the configuration error "MinIO configuration missing" and has neither   *)
(* parsed the endpoint nor constructed a client nor issued a probe.        *)
(***************************************************************************)
C16_Missing ==
    \/ Resolved("MINIO_ENDPOINT", minioStu.Minio.Endpoint) = Empty
    \/ Resolved("MINIO_ACCESS_KEY_ID", minioStu.Minio.AccessKeyID) = Empty
    \/ Resolved("MINIO_SECRET_ACCESS_KEY", minioStu.Minio.SecretAccessKey) = Empty

C16_MissingConfigFirst ==
    (pc["minio"] \notin {"idle", "start"} /\ minioStu.Enable = <<"minio">> /\ C16_Missing) =>
        /\ Done("minio")
        /\ ret["minio"].desc = Empty
        /\ ret["minio"].err = Wrap(ErrConfig, <<"MinIO configuration missing">>)
        /\ ret["minio"].err.code = configErrCode
        /\ ops["minio"] = <<>>
        /\ DOMAIN loc["minio"] = {"endpoint", "accessKeyID", "secretAccessKey", "useSSL"}

\* the environment empties a configured access key; the endpoint would not even parse
C16_Witness ==
    /\ Done("minio")
    /\ minioStu.Enable = <<"minio">>
    /\ minioStu.Minio.AccessKeyID = <<"ak">> /\ minioStu.Minio.SecretAccessKey = <<"sk">>
    /\ env["MINIO_ACCESS_KEY_ID"] = Set(Empty)
    /\ Resolved("MINIO_ENDPOINT", minioStu.Minio.Endpoint) = <<"127.0.0.1", ":", "9000">>
    /\ ~Parse(<<"127.0.0.1", ":", "9000">>).ok
    /\ ret["minio"].err = Wrap(ErrConfig, <<"MinIO configuration missing">>)

(***************************************************************************)
(* C17.  buildMongoURI writes the credential part "username:password@"     *)
(* into the URI iff username and password are both non-empty; with either  *)
(* one empty the URI has no credentials at all; in both cases the URI      *)
(* carries the comma-joined address list, the database name and the max    *)
(* pool size.  Read off the URI CheckMongo connects with when MONGO_URI    *)
(* is not set.                                                             *)
(***************************************************************************)
C17_Built == pc["mongo"] \in {"ping", "done"} /\ ~env["MONGO_URI"].exists

C17_Both == mongoStu.Username # Empty /\ mongoStu.Password # Empty

\* what every URI ends with: hosts, database, pool size
C17_Rest ==
    Join(mongoStu.Address, <<",">>) \o <<"/">> \o mongoStu.Database
        \o <<"?maxPoolSize=">> \o <<ToString(mongoStu.MaxPoolSize)>>

C17_Credentials == mongoStu.Username \o <<":">> \o mongoStu.Password \o <<"@">>

C17_MongoURI ==
    C17_Built =>
      LET uri == loc["mongo"].uri IN
      /\ Head(uri) = "mongodb://"
      /\ C15_Contains(uri, <<"@">>) <=> C17_Both
      /\ C17_Both => uri = <<"mongodb://">> \o C17_Credentials \o C17_Rest
      /\ ~C17_Both =>
            /\ uri = <<"mongodb://">> \o C17_Rest
            /\ \A i \in 1..Len(uri) : uri[i] \notin {"u", "p", ":", "@"}
      /\ SubSeq(uri, Len(uri) - Len(C17_Rest) + 1, Len(uri)) = C17_Rest

\* partial credentials: a username without a password, two hosts
C17_Witness ==
    /\ C17_Built
    /\ mongoStu.Username = <<"u">> /\ mongoStu.Password = Empty
    /\ Len(mongoStu.Address) = 2
    /\ loc["mongo"].uri = <<"mongodb://", "a", ",", "b", "/", "openim", "?maxPoolSize=", "100">>

(***************************************************************************)
(* C18.  The checkers are independent: for fixed configuration,            *)
(* environment and backend behaviour the (descriptor, error) of each       *)
(* checker is the same under every order and interleaving of the           *)
(* checkers' steps.  Stated as: every step writes the state of one checker *)
(* only, never the environment or a configuration, and a result once       *)
(* returned stays; and the result a checker returns is the one its own     *)
(* configuration, the environment and the answers of its own backend (its  *)
(* call log, the live topics) determine, whatever the others did.          *)
(***************************************************************************)
\* a call op of checker c was answered with a failure
C18_Failed(c, op) == \E i \in 1..Len(ops[c]) : ops[c][i] = Call(op, FALSE)

C18_Ok(str) == [desc |-> str, err |-> NilErr]

C18_Err(err) == [desc |-> Empty, err |-> err]

\* the error of a failed library call, with the address text appended
C18_LibErr(msg, str) == C18_Err(Wrap(ErrStr(NewError(<<msg>>), str), Empty))

C18_Mongo ==
    LET str == <<"ths addr is:">> \o Join(mongoStu.Address, <<",">>) IN
    IF C18_Failed("mongo", "Connect") THEN C18_LibErr("mongo: connect failed", str)
    ELSE IF C18_Failed("mongo", "Ping") THEN C18_LibErr("mongo: ping failed", str)
    ELSE C18_Ok(str)

C18_Minio ==
    LET endpoint == Resolved("MINIO_ENDPOINT", minioStu.Minio.Endpoint)
        ak       == Resolved("MINIO_ACCESS_KEY_ID", minioStu.Minio.AccessKeyID)
        sk       == Resolved("MINIO_SECRET_ACCESS_KEY", minioStu.Minio.SecretAccessKey)
        useSSL   == Resolved("MINIO_USE_SSL", <<"false">>)
        u        == Parse(endpoint)
        secure   == u.Scheme = <<"https">> \/ useSSL = <<"true">>
        str      == <<"ths addr is:">> \o u.Host
    IN
    IF minioStu.Enable # <<"minio">> THEN C18_Ok(Empty)
    ELSE IF C16_Missing THEN C18_Err(Wrap(ErrConfig, <<"MinIO configuration missing">>))
    ELSE IF ~u.ok
      THEN C18_LibErr("url: parse error", <<"the endpoint is:">> \o endpoint)
    ELSE IF C18_Failed("minio", "New")
      THEN C18_Err(Wrap(NewError(<<"minio: invalid endpoint">>),
                        <<"minio: invalid endpoint", ";host:">> \o u.Host
                        \o <<",accessKeyID:">> \o ak \o <<",secretAccessKey:">> \o sk
                        \o <<",Secure:">> \o BoolStr(secure)))
    ELSE IF C18_Failed("minio", "HealthCheck")
      THEN C18_LibErr("minio: health check failed", str)
    ELSE IF C18_Failed("minio", "IsOffline")
      THEN C18_Err(Wrap(ErrComponentStart, <<"Minio server is offline;">> \o str))
    ELSE IF HostIsLoopback(minioStu.ApiURL) \/ HostIsLoopback(minioStu.Minio.SignEndpoint)
      THEN C18_Err(LoopbackErr)
    ELSE C18_Ok(str)

C18_Redis ==
    LET address == Resolved("REDIS_ADDRESS", Join(redisStu.Address, <<",">>))
        str     == <<"the addr is:">> \o Join(Split(address, ","), <<",">>)
    IN IF C18_Failed("redis", "Ping") THEN C18_LibErr("redis: ping failed", str)
       ELSE C18_Ok(str)

C18_Zk ==
    LET address == Resolved("ZOOKEEPER_ADDRESS", Join(zkStu.ZkAddr, <<",">>))
        str     == <<"the addr is:">> \o address
    IN IF C18_Failed("zk", "Connect") THEN C18_LibErr("zk: connect failed", str)
       ELSE IF Count(ops["zk"], "Close") = 0
         THEN C18_Err(Wrap(NewError(TimeoutMsg),
                           <<"Zookeeper Addr: ">> \o Join(zkStu.ZkAddr, <<" ">>)))
       ELSE IF C18_Failed("zk", "AddAuth") THEN C18_LibErr("zk: auth failed", str)
       ELSE C18_Ok(str)

C18_Kafka ==
    LET address == Resolved("KAFKA_ADDRESS", Join(kafkaStu.Addr, <<",">>))
        str     == <<"the addr is:">> \o address
        req     == <<kafkaStu.MsgToMongo.Topic, kafkaStu.MsgToPush.Topic,
                     kafkaStu.LatestMsgToRedis.Topic>>
        live    == {loc["kafka"].topics[i] : i \in 1..Len(loc["kafka"].topics)}
        missing == {i \in 1..3 : req[i] \notin live}
    IN IF C18_Failed("kafka", "NewClient") THEN C18_LibErr("kafka: client failed", str)
       ELSE IF C18_Failed("kafka", "Topics")
         THEN C18_Err(Wrap(NewError(<<"kafka: topics failed">>), Empty))
       ELSE IF missing # {}
         THEN C18_Err(Wrap(ErrComponentStart,
                           <<"Kafka doesn't contain topic: ">>
                               \o req[CHOOSE i \in missing : \A j \in missing : i <= j]))
       ELSE C18_Ok(str)

C18_OwnResult ==
    /\ Done("mongo") => ret["mongo"] = C18_Mongo
    /\ Done("minio") => ret["minio"] = C18_Minio
    /\ Done("redis") => ret["redis"] = C18_Redis
    /\ Done("zk")    => ret["zk"]    = C18_Zk
    /\ Done("kafka") => ret["kafka"] = C18_Kafka
    /\ \A c \in Checkers : ~Done(c) => ret[c] = NoRet

\* what belongs to checker c alone
C18_Own(c) == <<pc[c], ret[c], ops[c], loc[c], envReads[c]>>

C18_OneCheckerPerStep ==
    /\ UNCHANGED <<env, configs>>
    /\ \E c \in Checkers : \A d \in Checkers \ {c} : UNCHANGED C18_Own(d)
    /\ ~UNCHANGED zkWait => UNCHANGED <<C18_Own("mongo"), C18_Own("minio"),
                                         C18_Own("redis"), C18_Own("kafka")>>
    /\ \A c \in Checkers : Done(c) => UNCHANGED C18_Own(c)

C18_Independent == [](C18_OwnResult) /\ [][C18_OneCheckerPerStep]_vars

\* CheckZookeeper and CheckKafka, invoked together, have both returned
C18_Witness ==
    /\ Done("zk") /\ Done("kafka")
    /\ ret["zk"].err = NilErr /\ Count(ops["zk"], "AddAuth") = 1
    /\ ret["kafka"].err # NilErr /\ Len(loc["kafka"].topics) = MaxTopics
    /\ env = ParEnv

(***************************************************************************)
(* C19.  Shape of every checker's result: a non-nil error comes with the   *)
(* empty descriptor, a non-empty descriptor comes with a nil error, and    *)
(* the only result with an empty descriptor and a nil error is the skip    *)
(* of CheckMinio when the storage kind is not "minio".                     *)
(***************************************************************************)
C19_OutputShape ==
    \A c \in Checkers :
        Done(c) =>
            /\ ret[c].err # NilErr => ret[c].desc = Empty
            /\ ret[c].desc # Empty => ret[c].err = NilErr
            /\ ret[c].err.kind = "nil" <=> ret[c].err = NilErr
            /\ (ret[c].desc = Empty /\ ret[c].err = NilErr) =>
                   (c = "minio" /\ minioStu.Enable # <<"minio">> /\ ops[c] = <<>>)

\* a failure after the client was built: a required topic is missing
C19_Witness ==
    /\ Done("kafka")
    /\ ops["kafka"] = <<Call("NewClient", TRUE), Call("Topics", TRUE), Call("Close", TRUE)>>
    /\ ret["kafka"].err.code = componentStartErrCode
    /\ ret["kafka"].desc = Empty

(***************************************************************************)
(* C20.  CheckMinio: the cancel function a successful HealthCheck set-up   *)
(* returned is called exactly once before the function returns on each of  *)
(* the three later paths (store offline, loopback configuration error,     *)
(* success), and is never called on a path that returns before or at a     *)
(* failed HealthCheck set-up.                                              *)
(***************************************************************************)
\* CheckMinio is over: returned, or unwound by the panic of exactIP
C20_Over == pc["minio"] \in {"done", "panic"}

C20_ProbeSetUp ==
    \E i \in 1..Len(ops["minio"]) : ops["minio"][i] = Call("HealthCheck", TRUE)

C20_LaterPath ==
    \/ ret["minio"].err = Wrap(ErrComponentStart,
                               <<"Minio server is offline;">> \o loc["minio"].str)
    \/ ret["minio"].err = LoopbackErr
    \/ ret["minio"] = [desc |-> loc["minio"].str, err |-> NilErr]

C20_CancelOnce ==
    /\ (C20_Over /\ C20_ProbeSetUp) =>
          /\ Count(ops["minio"], "cancel") = 1
          /\ ops["minio"][Len(ops["minio"])].op = "cancel"
          /\ Done("minio") => C20_LaterPath
    /\ (Done("minio") /\ ops["minio"] # <<>> /\ C20_LaterPath) =>
          (C20_ProbeSetUp /\ Count(ops["minio"], "cancel") = 1)
    /\ ~(C20_Over /\ C20_ProbeSetUp) => Count(ops["minio"], "cancel") = 0

\* the loopback configuration error, returned after one cancel
C20_Witness ==
    /\ Done("minio")
    /\ ret["minio"].err = LoopbackErr
    /\ Count(ops["minio"], "cancel") = 1
    /\ Count(ops["minio"], "IsOffline") = 1
====
